---- MODULE Spec2Model ----
(***************************************************************************)
(* Model of the result cache of corona_status.py: the decorator `cache`    *)
(* and its closure `cache_wrapper` (src/corona_status.py:89-163), the      *)
(* pickle file it loads and dumps, and the wrapped fetch operations        *)
(* api_get / get_district / get_district_history_incidence.                *)
(*                                                                         *)
(* Time is counted in ticks; one tick stands for three hours, so the       *)
(* timedelta(hours=6) of the source is two ticks.                          *)
(***************************************************************************)
EXTENDS Integers, Sequences, FiniteSets, TLC

\* ------------------------------------------------------------------ bounds
MaxTime == 3
FrameCap == 2

\* --------------------------------------------------------------- constants
valid_for == 2
HTTP_OK == 200

Procs == {1, 2}

\* Python's None, as the timestamp and as the value of a missing entry
\* (line 128: the default (None, None) of cache_storage.get).
NoneTs == 0 - 1
NoneResult ==
  [req |-> [fn |-> "", args |-> <<>>, kwargs |-> <<>>],
   lastCheckedForUpdate |-> NoneTs]

\* ------------------------------------------------------- calls and keys
\* The calls the model makes: one of get_district and two of
\* get_district_history_incidence that differ only in the value of the
\* keyword argument `days`.
Calls ==
  { [fn |-> "get_district", args |-> <<"02000">>, kwargs |-> <<>>],
    [fn |-> "get_district_history_incidence", args |-> <<"02000">>,
     kwargs |-> << <<"days", "7">> >>],
    [fn |-> "get_district_history_incidence", args |-> <<"02000">>,
     kwargs |-> << <<"days", "14">> >>] }

\* tuple(kwargs): iterating a dict yields its keys only.
KwargsTuple(kwargs) == [i \in 1..Len(kwargs) |-> kwargs[i][1]]

\* cache_key = (fn.__name__, args, tuple(kwargs))
CacheKey(c) == <<c.fn, c.args, KwargsTuple(c.kwargs)>>

Keys == {CacheKey(c) : c \in Calls}

\* A fixed order of the keys, standing for the insertion order of the dict.
KeySeq ==
  << <<"get_district", <<"02000">>, <<>>>>,
     <<"get_district_history_incidence", <<"02000">>, <<"days">>>> >>

\* ------------------------------------------------------ values and entries
Times == 0..MaxTime

\* A fetched object: the request it answers and meta.lastCheckedForUpdate.
Results == [req : Calls, lastCheckedForUpdate : Times]

\* get_timestamp = lambda d: d.meta.lastCheckedForUpdate
get_timestamp(d) == d.lastCheckedForUpdate

Entry(ts, value) == [ts |-> ts, value |-> value]

\* The entries cache_wrapper can have stored under key k: the result of a
\* call with that key and the timestamp extracted from it (line 151, 155).
EntriesOf(k) ==
  {Entry(get_timestamp(r), r) : r \in {x \in Results : CacheKey(x.req) = k}}

\* The mappings cache_wrapper can have stored.
Mappings ==
  UNION {[D -> UNION {EntriesOf(k) : k \in D}] : D \in SUBSET Keys}

EmptyMap == [k \in {} |-> Entry(NoneTs, NoneResult)]

\* A new dict with the one item, for the item set in the dict.
SetItem_alone(m, k, e) == [x \in {k} |-> e]

\* cache_storage[cache_key] = (data_timestamp, result)
SetItem(m, k, e) == [x \in (DOMAIN m) \cup {k} |-> IF x = k THEN e ELSE m[x]]

\* cache_storage.get(cache_key, (None, None))
Get(m, k) == IF k \in DOMAIN m THEN m[k] ELSE Entry(NoneTs, NoneResult)


\* ------------------------------------------------------- the pickle file
\* The content of the cache file is a sequence of tokens, one per group of
\* pickle opcodes: the PROTO header, a FRAME header that announces n
\* tokens, EMPTY_DICT (DICT), one key/entry pair of the dict (ITEM), STOP,
\* and JUNK for bytes that are no opcode.
Tok(op, n, key, entry) == [op |-> op, n |-> n, key |-> key, entry |-> entry]
NoKey == <<"", <<>>, <<>>>>
PROTO == Tok("PROTO", 0, NoKey, Entry(NoneTs, NoneResult))
FRAME(n) == Tok("FRAME", n, NoKey, Entry(NoneTs, NoneResult))
DICT == Tok("DICT", 0, NoKey, Entry(NoneTs, NoneResult))
ITEM(k, e) == Tok("ITEM", 0, k, e)
STOP == Tok("STOP", 0, NoKey, Entry(NoneTs, NoneResult))
JUNK == Tok("JUNK", 0, NoKey, Entry(NoneTs, NoneResult))

InDomain(m) == [k \in Keys |-> k \in DOMAIN m]

\* The items of the dict, in key order.
Items(m) ==
  LET present == SelectSeq(KeySeq, LAMBDA k : InDomain(m)[k])
  IN  [i \in 1..Len(present) |-> ITEM(present[i], m[present[i]])]

Min(a, b) == IF a < b THEN a ELSE b

\* The pickler cuts its output into frames of at most FrameCap tokens.
RECURSIVE Frames(_)
Frames(payload) ==
  IF payload = <<>> THEN <<>>
  ELSE LET n == Min(FrameCap, Len(payload))
       IN  <<FRAME(n)>> \o SubSeq(payload, 1, n)
             \o Frames(SubSeq(payload, n + 1, Len(payload)))

\* pickle.dumps(cache_storage)
Pickle(m) == <<PROTO>> \o Frames(<<DICT>> \o Items(m) \o <<STOP>>)

IsPrefix(a, b) == Len(a) <= Len(b) /\ SubSeq(b, 1, Len(a)) = a

UnpickleFails(i) == [st |-> "UnpicklingError", map |-> EmptyMap, pos |-> i]

\* The unpickler reading content c from token i on. has: a dict is on top
\* of the stack; cur: that dict; ord: the keys of its items in the order
\* read; old: the keys read for earlier dicts that were never finished,
\* whose objects fill the first slots of the memo.
\* At STOP the dict on top is returned. When an earlier, unfinished pickle
\* precedes it, the memo indexes of the later pickle refer to the objects
\* of the earlier one: the load succeeds when the earlier items are those
\* the later dict begins with, and fails otherwise.
RECURSIVE Unpickle(_, _, _, _, _, _)
Unpickle(c, i, has, cur, ord, old) ==
  IF i > Len(c)
    THEN [st |-> "EOFError", map |-> EmptyMap, pos |-> Len(c)]
  ELSE LET t == c[i]
       IN CASE t.op = "PROTO" -> Unpickle(c, i + 1, has, cur, ord, old)
            [] t.op = "FRAME" ->
                 IF i + t.n > Len(c)
                   THEN UnpickleFails(Len(c))
                   ELSE Unpickle(c, i + 1, has, cur, ord, old)
            [] t.op = "DICT" ->
                 Unpickle(c, i + 1, TRUE, EmptyMap, <<>>, old \o ord)
            [] t.op = "ITEM" ->
                 IF has
                   THEN Unpickle(c, i + 1, TRUE, SetItem(cur, t.key, t.entry),
                                 Append(ord, t.key), old)
                   ELSE UnpickleFails(i)
            [] t.op = "STOP" ->
                 IF has /\ IsPrefix(old, ord)
                   THEN [st |-> "ok", map |-> cur, pos |-> i]
                   ELSE UnpickleFails(i)
            [] OTHER -> UnpickleFails(i)

\* pickle.load(cachef) on a file with content c, read from offset 0.
pickle_load(c) == Unpickle(c, 1, FALSE, EmptyMap, <<>>, <<>>)

\* cachef.write(data) at offset pos of a file opened 'r+b': the bytes are
\* written over the content from pos on, the file is not truncated.
WriteAt(c, pos, data) ==
  SubSeq(c, 1, pos) \o data
    \o SubSeq(c, pos + Len(data) + 1, Len(c))


\* ------------------------------------------------------------ exceptions
\* JSONDecodeError (response.json()) and pydantic's ValidationError derive
\* from ValueError; the others derive from Exception directly or through
\* classes the program does not name.
Base(k) ==
  CASE k = "JSONDecodeError" -> "ValueError"
    [] k = "ValidationError" -> "ValueError"
    [] OTHER -> "Exception"

\* isinstance(an exception of class k, cls)
IsInstance(k, cls) == k = cls \/ Base(k) = cls \/ cls = "Exception"

\* A bare `except Exception`: every exception falls back.
Catches_everything(classes, k) == TRUE

\* `except classes as e` catches an exception of class k
Catches(classes, k) == \E cls \in classes : IsInstance(k, cls)

\* ------------------------------------------------- the remote and the fetch
\* What requests.get meets: no connection, or a response with a status and
\* a body. The bodies: the expected JSON, JSON with an `error` object, JSON
\* with an `error` string, text that is not JSON, JSON without the record
\* of the district, JSON whose record lacks fields.
Bodies ==
  {"ok", "error_obj", "error_str", "not_json", "missing_data", "bad_fields"}

Responses ==
  [status : {HTTP_OK, 500}, body : Bodies, lastCheckedForUpdate : Times]
    \cup {[status |-> 0, body |-> "no_connection", lastCheckedForUpdate |-> 0]}

Raise(k) == [raised |-> TRUE, kind |-> k, value |-> NoneResult]
Return(v) == [raised |-> FALSE, kind |-> "", value |-> v]

\* api_get(query)
api_get(resp) ==
  IF resp.body = "no_connection" THEN Raise("ConnectionError")
  ELSE IF resp.body = "not_json" THEN Raise("JSONDecodeError")
  ELSE IF resp.status # HTTP_OK THEN Raise("RuntimeError")
  ELSE IF resp.body = "error_obj" THEN Raise("RuntimeError")
  ELSE IF resp.body = "error_str" THEN Raise("AttributeError")
  ELSE Return(NoneResult)

\* get_district(ags), get_district_history_incidence(ags, days): the body of
\* the wrapped function, called for call c when the remote answers resp.
fn(c, resp) ==
  LET response == api_get(resp)
  IN  IF response.raised THEN response
      ELSE IF resp.body = "missing_data" THEN Raise("KeyError")
      ELSE IF resp.body = "bad_fields" THEN Raise("ValidationError")
      ELSE Return([req |-> c,
                   lastCheckedForUpdate |-> resp.lastCheckedForUpdate])

\* The third argument of @cache(...) of each wrapped function.
CatchArg(name) == {"RuntimeError"}


\* ------------------------------------------------------------------ state
VARIABLES
  cache_file,        \* the file at the cache path: [exists, content]
  now,               \* datetime.datetime.now(datetime.timezone.utc)
  pc,                \* where each process is in cache_wrapper
  call,              \* fn, args and kwargs of the running invocation
  cachef,            \* the open handle: [open, pos]
  cache_storage,     \* the dict loaded from the file
  current_timestamp,
  cache_timestamp,
  result,
  catch_exceptions,  \* the nonlocal of the closure, per wrapped function
  outcome,           \* how the last invocation ended
  pre_file,          \* the file when the invocation was called
  loaded,            \* what the load of the invocation yielded
  dumped,            \* what the dump of the invocation wrote, and where
  fn_result,         \* what the call of fn in the invocation came to
  ncalls,            \* loads, calls of fn and dumps of the invocation
  prev,              \* how the invocation before the running one ended
  environb,          \* os.environb[b'CORONA_STATUS_CACHE'], or NoPath
  args,              \* args.cache_file of main, or NoPath
  cache_path,        \* the path set_cache resolved; cache_file is its file
  cargs              \* the third argument of @cache(...), per function

vars ==
  <<cache_file, now, pc, call, cachef, cache_storage, current_timestamp,
    cache_timestamp, result, catch_exceptions, outcome, pre_file, loaded,
    dumped, fn_result, ncalls, prev, environb, args, cache_path, cargs>>

\* The variables no step of an invocation assigns.
decoration == <<environb, args, cache_path, cargs>>

NoCall == [fn |-> "", args |-> <<>>, kwargs |-> <<>>]
File(exists, content) == [exists |-> exists, content |-> content]
NoPath == ""
DefaultPath == "corona_status.cache"
Closed == [open |-> FALSE, pos |-> 0, name |-> NoPath]

\* A with block that leaves the file open.
Close_leak(h) == h

\* The end of the with block of line 117, on every way out of it.
Close(h) == [h EXCEPT !.open = FALSE, !.pos = 0]

\* Lines 105-110: the path of the cache file.
set_cache(env) == IF env # NoPath THEN env ELSE DefaultPath

\* cache(*cargs) with two arguments, and with three.
NoCatch == [none |-> TRUE, classes |-> {}]
Given(classes) == [none |-> FALSE, classes |-> classes]
NoOutcome ==
  [state |-> "none", kind |-> "", cause |-> "", origin |-> "",
   value |-> NoneResult]
Raised(kind, cause, origin) ==
  [state |-> "raised", kind |-> kind, cause |-> cause, origin |-> origin,
   value |-> NoneResult]
Returned(v) ==
  [state |-> "returned", kind |-> "", cause |-> "", origin |-> "",
   value |-> v]
NotLoaded == [st |-> "none", map |-> EmptyMap]
NotDumped == [done |-> FALSE, map |-> EmptyMap, pos |-> 0, during |-> {}]
NotCalled ==
  [called |-> FALSE, raised |-> FALSE, kind |-> "", value |-> NoneResult,
   status |-> 0, body |-> ""]
\* What fn came to, and the status and body of the response it met.
FnResult(r, resp) ==
  [called |-> TRUE, raised |-> r.raised, kind |-> r.kind, value |-> r.value,
   status |-> resp.status, body |-> resp.body]
NoCalls == [load |-> 0, fn |-> 0, dump |-> 0]
NoPrev == [fallback |-> FALSE, key |-> NoKey]

FnNames == {c.fn : c \in Calls}

\* The proper prefixes of a content: what a dump that was cut short leaves.
Prefixes(c) == {SubSeq(c, 1, n) : n \in 1..(Len(c) - 1)}

\* m is m2 without some of its keys.
Restricts(m, m2) ==
  /\ DOMAIN m \subseteq DOMAIN m2
  /\ DOMAIN m # DOMAIN m2
  /\ \A k \in DOMAIN m : m[k] = m2[k]

\* The contents the cache file can have when an invocation starts: empty,
\* bytes that are no pickle, a stored mapping, the beginning of one, and a
\* stored mapping written over a longer one.
InitContents ==
  {<<>>, <<JUNK>>}
    \cup {Pickle(m) : m \in Mappings}
    \cup UNION {Prefixes(Pickle(m)) : m \in Mappings}
    \cup UNION {{WriteAt(Pickle(m2), 0, Pickle(m)) :
                   m \in {x \in Mappings : Restricts(x, m2)}} :
                 m2 \in Mappings}

\* The state after the decorators ran, with that file and the clock at t.
InitWith(file, t) ==
  /\ cache_file = file
  /\ now = t
  /\ pc = [p \in Procs |-> "idle"]
  /\ call = [p \in Procs |-> NoCall]
  /\ cachef = [p \in Procs |-> Closed]
  /\ cache_storage = [p \in Procs |-> EmptyMap]
  /\ current_timestamp = [p \in Procs |-> NoneTs]
  /\ cache_timestamp = [p \in Procs |-> NoneTs]
  /\ result = [p \in Procs |-> NoneResult]
  /\ outcome = [p \in Procs |-> NoOutcome]
  /\ pre_file = [p \in Procs |-> File(FALSE, <<>>)]
  /\ loaded = [p \in Procs |-> NotLoaded]
  /\ dumped = [p \in Procs |-> NotDumped]
  /\ fn_result = [p \in Procs |-> NotCalled]
  /\ ncalls = [p \in Procs |-> NoCalls]
  /\ prev = [p \in Procs |-> NoPrev]

\* Lines 89-110: the decorators ran with the environment env and the sets
\* of exceptions given; main then parsed the option --cache-file as arg.
Decorated(env, arg, given) ==
  /\ environb = env
  /\ args = arg
  /\ cache_path = set_cache(env)
  /\ cargs = given
  /\ catch_exceptions = [p \in Procs |-> given]

\* Lines 176-213: the decorators of the program.
ProgramCargs == [f \in FnNames |-> Given(CatchArg(f))]

Init ==
  \E file \in {File(FALSE, <<>>)} \cup {File(TRUE, c) : c \in InitContents} :
    /\ InitWith(file, 0)
    /\ Decorated(NoPath, NoPath, ProgramCargs)

\* ---------------------------------------------------------------- actions
\* Lines 113-117: the wrapper is called; a missing file is created empty
\* and the file is opened 'r+b', at offset 0.
Call(p, c) ==
  /\ pc[p] = "idle"
  /\ cache_file' = IF cache_file.exists THEN cache_file ELSE File(TRUE, <<>>)
  /\ cachef' = [cachef EXCEPT ![p] =
                  [open |-> TRUE, pos |-> 0, name |-> cache_path]]
  /\ call' = [call EXCEPT ![p] = c]
  /\ pc' = [pc EXCEPT ![p] = "load"]
  /\ cache_storage' = [cache_storage EXCEPT ![p] = EmptyMap]
  /\ current_timestamp' = [current_timestamp EXCEPT ![p] = NoneTs]
  /\ cache_timestamp' = [cache_timestamp EXCEPT ![p] = NoneTs]
  /\ result' = [result EXCEPT ![p] = NoneResult]
  /\ outcome' = [outcome EXCEPT ![p] = NoOutcome]
  /\ pre_file' = [pre_file EXCEPT ![p] = cache_file]
  /\ loaded' = [loaded EXCEPT ![p] = NotLoaded]
  /\ dumped' = [dumped EXCEPT ![p] = NotDumped]
  /\ fn_result' = [fn_result EXCEPT ![p] = NotCalled]
  /\ ncalls' = [ncalls EXCEPT ![p] = NoCalls]
  /\ prev' = [prev EXCEPT ![p] =
                IF outcome[p].state = "returned" /\ fn_result[p].raised
                  THEN [fallback |-> TRUE, key |-> CacheKey(call[p])]
                  ELSE NoPrev]
  /\ UNCHANGED <<now, catch_exceptions, decoration>>

\* The comparison with > for >=: an entry as old as the ttl still counts.
Expired_strict(ts, current) == ts = NoneTs \/ (current - ts) > valid_for

\* The ttl taken one tick short: an entry is refetched before it expires.
Expired_early(ts, current) == ts = NoneTs \/ (current - ts) >= valid_for - 1

\* The test of the age left out: every call fetches.
Expired_always(ts, current) == TRUE

\* Line 131-133: the entry is missing or too old.
Expired(ts, current) == ts = NoneTs \/ (current - ts) >= valid_for

\* Without the cachef.seek(0) of line 120.
PosAfterLoad_noseek(o) == o.pos

\* The offset of cachef after line 119-122: back at 0 after a load, left
\* where the unpickler stopped after an EOFError.
PosAfterLoad(o) == IF o.st = "ok" THEN 0 ELSE o.pos

\* Lines 118-133: pickle.load succeeds or raises EOFError; the key is
\* built, the clock read, the entry looked up and the decision taken.
Load(p) ==
  /\ pc[p] = "load"
  /\ LET o == pickle_load(cache_file.content) IN
       /\ o.st \in {"ok", "EOFError"}
       /\ LET storage == IF o.st = "ok" THEN o.map ELSE EmptyMap
              entry == Get(storage, CacheKey(call[p]))
          IN  /\ cache_storage' = [cache_storage EXCEPT ![p] = storage]
              /\ cachef' = [cachef EXCEPT ![p].pos = PosAfterLoad(o)]
              /\ loaded' = [loaded EXCEPT ![p] = [st |-> o.st, map |-> storage]]
              /\ current_timestamp' = [current_timestamp EXCEPT ![p] = now]
              /\ cache_timestamp' = [cache_timestamp EXCEPT ![p] = entry.ts]
              /\ result' = [result EXCEPT ![p] = entry.value]
              /\ pc' = [pc EXCEPT ![p] =
                           IF Expired(entry.ts, now) THEN "fn" ELSE "dump"]
  /\ ncalls' = [ncalls EXCEPT ![p].load = @ + 1]
  /\ UNCHANGED <<cache_file, now, call, catch_exceptions, outcome, pre_file,
                 dumped, fn_result, prev,
                 decoration>>

\* Lines 118-122: pickle.load raises an exception the except clause does
\* not name; it leaves the with block, which closes the file.
LoadRaises(p) ==
  /\ pc[p] = "load"
  /\ LET o == pickle_load(cache_file.content) IN
       /\ o.st \notin {"ok", "EOFError"}
       /\ outcome' = [outcome EXCEPT ![p] = Raised(o.st, "", "load")]
       /\ loaded' = [loaded EXCEPT ![p] = [st |-> o.st, map |-> EmptyMap]]
  /\ ncalls' = [ncalls EXCEPT ![p].load = @ + 1]
  /\ cachef' = [cachef EXCEPT ![p] = Close(@)]
  /\ pc' = [pc EXCEPT ![p] = "idle"]
  /\ UNCHANGED <<cache_file, now, call, cache_storage, current_timestamp,
                 cache_timestamp, result, catch_exceptions, pre_file, dumped,
                 fn_result, prev,
                 decoration>>

\* Without the test for None: the set is emptied by the first fetch.
CatchSet_cleared(ce) == [none |-> FALSE, classes |-> {}]

\* Lines 137-138: a missing set of exceptions becomes the empty tuple.
CatchSet(ce) == IF ce.none THEN [none |-> FALSE, classes |-> {}] ELSE ce

\* The time of the call for the timestamp of the data.
StoredEntry_now(r, current) == Entry(current, r)

\* The fallback refreshing the timestamp of the entry it uses again.
FallbackEntry_now(ts, r, current) == Entry(current, r)

\* Lines 150-155: the entry stored for a result fn returned at time current.
StoredEntry(r, current) == Entry(get_timestamp(r), r)

\* Lines 149, 155: the entry stored when the cached result is used again.
FallbackEntry(ts, r, current) == Entry(ts, r)

\* Lines 137-140, 150-155: fn returns; its result is stored with the
\* timestamp get_timestamp extracts from it.
FnReturns(p) ==
  /\ pc[p] = "fn"
  /\ \E resp \in Responses :
       LET r == fn(call[p], resp)
       IN  /\ ~r.raised
           /\ fn_result' = [fn_result EXCEPT ![p] = FnResult(r, resp)]
           /\ result' = [result EXCEPT ![p] = r.value]
           /\ cache_storage' = [cache_storage EXCEPT ![p] =
                 SetItem(@, CacheKey(call[p]), StoredEntry(r.value, now))]
  /\ catch_exceptions' = [catch_exceptions EXCEPT ![p][call[p].fn] = CatchSet(@)]
  /\ ncalls' = [ncalls EXCEPT ![p].fn = @ + 1]
  /\ pc' = [pc EXCEPT ![p] = "dump"]
  /\ UNCHANGED <<cache_file, now, call, cachef, current_timestamp,
                 cache_timestamp, outcome, pre_file, loaded, dumped, prev,
                 decoration>>

\* Lines 141-149, 155: fn raises an exception of catch_exceptions and the
\* key has an entry; the entry is stored again as it was loaded.
FnFallback(p) ==
  /\ pc[p] = "fn"
  /\ \E resp \in Responses :
       LET r == fn(call[p], resp)
       IN  /\ r.raised
           /\ Catches(CatchSet(catch_exceptions[p][call[p].fn]).classes, r.kind)
           /\ fn_result' = [fn_result EXCEPT ![p] = FnResult(r, resp)]
  /\ cache_timestamp[p] # NoneTs
  /\ cache_storage' = [cache_storage EXCEPT ![p] =
        SetItem(@, CacheKey(call[p]),
                FallbackEntry(cache_timestamp[p], result[p], now))]
  /\ catch_exceptions' = [catch_exceptions EXCEPT ![p][call[p].fn] = CatchSet(@)]
  /\ ncalls' = [ncalls EXCEPT ![p].fn = @ + 1]
  /\ pc' = [pc EXCEPT ![p] = "dump"]
  /\ UNCHANGED <<cache_file, now, call, cachef, current_timestamp,
                 cache_timestamp, result, outcome, pre_file, loaded, dumped, prev,
                 decoration>>

\* The class of the exception line 146 raises.
CacheMissKind == "ValueError"

\* Lines 141-148: fn raises an exception of catch_exceptions and the key
\* has no entry; ValueError is raised from it and the file is closed.
FnCacheMiss(p) ==
  /\ pc[p] = "fn"
  /\ cache_timestamp[p] = NoneTs
  /\ \E resp \in Responses :
       LET r == fn(call[p], resp)
       IN  /\ r.raised
           /\ Catches(CatchSet(catch_exceptions[p][call[p].fn]).classes, r.kind)
           /\ fn_result' = [fn_result EXCEPT ![p] = FnResult(r, resp)]
           /\ outcome' = [outcome EXCEPT ![p] =
                            Raised(CacheMissKind, r.kind, "cache_wrapper")]
  /\ catch_exceptions' = [catch_exceptions EXCEPT ![p][call[p].fn] = CatchSet(@)]
  /\ ncalls' = [ncalls EXCEPT ![p].fn = @ + 1]
  /\ cachef' = [cachef EXCEPT ![p] = Close(@)]
  /\ pc' = [pc EXCEPT ![p] = "idle"]
  /\ UNCHANGED <<cache_file, now, call, cache_storage, current_timestamp,
                 cache_timestamp, result, pre_file, loaded, dumped, prev,
                 decoration>>

\* Lines 139-141: fn raises an exception that catch_exceptions does not
\* name; it leaves the wrapper, the with block closes the file.
FnPropagates(p) ==
  /\ pc[p] = "fn"
  /\ \E resp \in Responses :
       LET r == fn(call[p], resp)
       IN  /\ r.raised
           /\ ~Catches(CatchSet(catch_exceptions[p][call[p].fn]).classes, r.kind)
           /\ fn_result' = [fn_result EXCEPT ![p] = FnResult(r, resp)]
           /\ outcome' = [outcome EXCEPT ![p] = Raised(r.kind, "", "fn")]
  /\ catch_exceptions' = [catch_exceptions EXCEPT ![p][call[p].fn] = CatchSet(@)]
  /\ ncalls' = [ncalls EXCEPT ![p].fn = @ + 1]
  /\ cachef' = [cachef EXCEPT ![p] = Close(@)]
  /\ pc' = [pc EXCEPT ![p] = "idle"]
  /\ UNCHANGED <<cache_file, now, call, cache_storage, current_timestamp,
                 cache_timestamp, result, pre_file, loaded, dumped, prev,
                 decoration>>

\* Lines 158-159: the dict is dumped at the offset of cachef, the with
\* block closes the file and the result is returned.
Dump(p) ==
  /\ pc[p] = "dump"
  /\ cache_file' = File(TRUE, WriteAt(cache_file.content, cachef[p].pos,
                                      Pickle(cache_storage[p])))
  /\ dumped' = [dumped EXCEPT ![p] =
                  [done |-> TRUE, map |-> cache_storage[p],
                   pos |-> cachef[p].pos,
                   during |-> {q \in Procs \ {p} : pc[q] \in {"fn", "dump"}}]]
  /\ ncalls' = [ncalls EXCEPT ![p].dump = @ + 1]
  /\ cachef' = [cachef EXCEPT ![p] = Close(@)]
  /\ outcome' = [outcome EXCEPT ![p] = Returned(result[p])]
  /\ pc' = [pc EXCEPT ![p] = "idle"]
  /\ UNCHANGED <<now, call, cache_storage, current_timestamp,
                 cache_timestamp, result, catch_exceptions, pre_file, loaded,
                 fn_result, prev,
                 decoration>>

\* Time passes.
Tick ==
  /\ now < MaxTime
  /\ now' = now + 1
  /\ UNCHANGED <<cache_file, pc, call, cachef, cache_storage,
                 current_timestamp, cache_timestamp, result, catch_exceptions,
                 outcome, pre_file, loaded, dumped, fn_result, ncalls, prev,
                 decoration>>

Step(p) ==
  \/ \E c \in Calls : Call(p, c)
  \/ Load(p)
  \/ LoadRaises(p)
  \/ FnReturns(p)
  \/ FnFallback(p)
  \/ FnCacheMiss(p)
  \/ FnPropagates(p)
  \/ Dump(p)

\* One run of the program: the invocations follow one another.
Next == Tick \/ Step(1)

Spec == Init /\ [][Next]_vars

\* Two runs of the program on the same cache file, without a lock. Each
\* run makes one invocation and both end within one tick of the clock; the
\* file starts missing, empty, with bytes that are no pickle, or with at
\* most one entry stored at time 0, fresh or expired.
InitConc ==
  \E file \in {File(FALSE, <<>>), File(TRUE, <<>>), File(TRUE, <<JUNK>>)}
           \cup {File(TRUE, Pickle(m)) :
                   m \in {x \in Mappings :
                            /\ Cardinality(DOMAIN x) <= 1
                            /\ \A k \in DOMAIN x : x[k].ts = 0}} :
    \E t \in {0, valid_for} :
      /\ InitWith(file, t)
      /\ Decorated(NoPath, NoPath, ProgramCargs)

StepConc(p) ==
  \/ \E c \in Calls : outcome[p] = NoOutcome /\ Call(p, c)
  \/ Load(p)
  \/ LoadRaises(p)
  \/ FnReturns(p)
  \/ FnFallback(p)
  \/ FnCacheMiss(p)
  \/ FnPropagates(p)
  \/ Dump(p)

NextConc == \E p \in Procs : StepConc(p)

SpecConc == InitConc /\ [][NextConc]_vars

\* The files the runs below start with: missing, with bytes that are no
\* pickle, or with at most one entry stored at time 0.
SmallFiles ==
  {File(FALSE, <<>>), File(TRUE, <<JUNK>>)}
    \cup {File(TRUE, Pickle(m)) :
            m \in {x \in Mappings :
                     /\ Cardinality(DOMAIN x) <= 1
                     /\ \A k \in DOMAIN x : x[k].ts = 0}}

\* One run of the program under each way of starting it: with
\* CORONA_STATUS_CACHE set or not, and --cache-file given or not.
Overrides(path) == {NoPath, path}

InitMain ==
  \E file \in SmallFiles :
    \E env \in Overrides("/env/corona.cache") :
      \E arg \in Overrides("/arg/corona.cache") :
        /\ InitWith(file, 0)
        /\ Decorated(env, arg, ProgramCargs)

SpecMain == InitMain /\ [][Next]_vars

\* One run with each wrapped function decorated with two arguments, no set
\* of exceptions given, or with three.
InitDecor ==
  \E file \in SmallFiles :
    \E given \in [FnNames -> {NoCatch, Given({"RuntimeError"})}] :
      /\ InitWith(file, 0)
      /\ Decorated(NoPath, NoPath, given)

SpecDecor == InitDecor /\ [][Next]_vars

\* ------------------------------------------------------------ properties
\* What the invocation of process p looked up and what the file holds now.
Key(p) == CacheKey(call[p])
Done(p) == pc[p] = "idle" /\ outcome[p].state # "none"
LookedUp(p) == loaded[p].st \in {"ok", "EOFError"}
HadEntry(p) == LookedUp(p) /\ Key(p) \in DOMAIN loaded[p].map
Prior(p) == Get(loaded[p].map, Key(p))
Age(p) == current_timestamp[p] - Prior(p).ts
InFallbackSet(p, kind) == \E cls \in CatchArg(call[p].fn) : kind = cls \/ Base(kind) = cls
Reload == pickle_load(cache_file.content)
ReloadsTo(m) == Reload.st = "ok" /\ Reload.map = m

\* C1: a call whose key has a stored entry younger than the ttl returns the
\* stored value, does not call fn, and dumps the mapping it loaded, which the
\* file then holds.
C1_FreshHit ==
  (HadEntry(1) /\ Age(1) < valid_for) =>
     /\ pc[1] # "fn"
     /\ ncalls[1].fn = 0
     /\ ~fn_result[1].called
     /\ cache_storage[1] = loaded[1].map
     /\ Done(1) =>
          /\ outcome[1] = Returned(Prior(1).value)
          /\ dumped[1].done /\ dumped[1].map = loaded[1].map
          /\ ReloadsTo(loaded[1].map)

C1_Witness ==
  /\ Done(1) /\ HadEntry(1) /\ Age(1) < valid_for
  /\ outcome[1].state = "returned"
  /\ Age(1) = valid_for - 1

\* C2: when the key has an expired entry (T, V) and fn raises an exception of
\* the fallback set, the call returns V and the entry dumped and held by the
\* file is still (T, V).
C2_FallbackKeeps ==
  (/\ Done(1) /\ HadEntry(1) /\ Age(1) >= valid_for
   /\ fn_result[1].raised /\ InFallbackSet(1, fn_result[1].kind)) =>
     /\ outcome[1] = Returned(Prior(1).value)
     /\ dumped[1].done
     /\ dumped[1].map[Key(1)] = Prior(1)
     /\ dumped[1].map = loaded[1].map
     /\ Reload.st = "ok" /\ Get(Reload.map, Key(1)) = Prior(1)

C2_Witness ==
  /\ Done(1) /\ HadEntry(1) /\ Age(1) >= valid_for
  /\ fn_result[1].raised /\ InFallbackSet(1, fn_result[1].kind)
  /\ outcome[1].state = "returned"
  /\ Prior(1).ts # current_timestamp[1]
  /\ now > current_timestamp[1]

\* C3: when fn raises an exception outside the fallback set, the call raises
\* that exception, dumps nothing, and the content of the file is what it was
\* when the call began, entry or no entry.
C3_NonFallbackUntouched ==
  (/\ Done(1) /\ fn_result[1].raised
   /\ ~InFallbackSet(1, fn_result[1].kind)) =>
     /\ outcome[1] = Raised(fn_result[1].kind, "", "fn")
     /\ ~dumped[1].done /\ ncalls[1].dump = 0
     /\ cache_file.content = pre_file[1].content
     /\ Reload.st = loaded[1].st /\ Reload.map = loaded[1].map

C3_Witness ==
  /\ Done(1) /\ fn_result[1].raised /\ ~InFallbackSet(1, fn_result[1].kind)
  /\ HadEntry(1)
  /\ outcome[1].state = "raised"

\* C4: when fn returns R, the call returns R and the entry dumped for the key
\* is (get_timestamp(R), R), whatever the clock says; the file holds it.
C4_StoresFreshness ==
  (/\ Done(1) /\ fn_result[1].called /\ ~fn_result[1].raised) =>
     LET R == fn_result[1].value
     IN  /\ outcome[1] = Returned(R)
         /\ dumped[1].done /\ ncalls[1].dump = 1
         /\ dumped[1].map[Key(1)] = Entry(R.lastCheckedForUpdate, R)
         /\ Reload.st = "ok" => Reload.map = dumped[1].map
         /\ dumped[1].pos = 0 => ReloadsTo(dumped[1].map)

C4_Witness ==
  /\ Done(1) /\ fn_result[1].called /\ ~fn_result[1].raised
  /\ HadEntry(1)
  /\ fn_result[1].value.lastCheckedForUpdate < current_timestamp[1]
  /\ dumped[1].map[Key(1)].ts = fn_result[1].value.lastCheckedForUpdate

\* C5: a call whose key has no entry, or an entry whose age is the ttl or
\* more, calls fn exactly once.
C5_ExpiryRefetches ==
  (/\ LookedUp(1)
   /\ (~HadEntry(1) \/ Age(1) >= valid_for)) =>
     /\ pc[1] = "fn" => ncalls[1].fn = 0
     /\ pc[1] # "fn" => ncalls[1].fn = 1 /\ fn_result[1].called

C5_Witness ==
  /\ Done(1) /\ HadEntry(1) /\ Age(1) = valid_for
  /\ ncalls[1].fn = 1

\* C6: when fn raises an exception of the fallback set and the key has no
\* entry, the call raises the cache-miss error with that exception as its
\* cause and returns nothing; and the class of the cache-miss error catches
\* none of the exceptions that fn raises through the wrapper.
C6_CacheMissDistinct ==
  /\ (/\ Done(1) /\ LookedUp(1) /\ ~HadEntry(1)
      /\ fn_result[1].raised /\ InFallbackSet(1, fn_result[1].kind)) =>
        /\ outcome[1] = Raised(CacheMissKind, fn_result[1].kind, "cache_wrapper")
        /\ ~dumped[1].done
  /\ (Done(1) /\ outcome[1].state = "raised" /\ outcome[1].origin = "fn") =>
        ~IsInstance(outcome[1].kind, CacheMissKind)

\* C7: whatever the file holds, the load yields a mapping, the call does not
\* raise an error of the load and goes on to call fn.
C7_UnreadableIsEmpty ==
  /\ outcome[1].origin # "load"
  /\ (loaded[1].st \notin {"none", "ok"}) =>
        /\ loaded[1].map = EmptyMap
        /\ pc[1] = "fn" \/ fn_result[1].called

\* C8: a call never returns, from the store or from fn, a value that was
\* fetched for a call with another function or other argument values: two
\* calls share a key only when function, args and kwargs are all equal.
C8_KeyIdentity ==
  (Done(1) /\ outcome[1].state = "returned") =>
     /\ outcome[1].value.req = call[1]
     /\ \A c \in Calls : CacheKey(c) = Key(1) => c = call[1]

\* C9: every call that returns has dumped its mapping from offset 0 of the
\* file, and the next load yields exactly that mapping.
C9_SaveReplaces ==
  (Done(1) /\ outcome[1].state = "returned") =>
     /\ dumped[1].done
     /\ dumped[1].pos = 0
     /\ ReloadsTo(dumped[1].map)

\* C10: when two runs both load before either dumps, the file holds after
\* both dumps the mapping of the run that dumped last; the entry of the key
\* of the first is the one the last had loaded, not the one the first wrote.
C10_LastWriteWins ==
  \A p \in Procs : \A q \in Procs \ {p} :
    (/\ dumped[p].done /\ dumped[q].done
     /\ q \in dumped[p].during) =>
       /\ ReloadsTo(dumped[q].map)
       /\ Key(p) # Key(q) =>
            Get(Reload.map, Key(p)) = Get(loaded[q].map, Key(p))

C10_Witness ==
  \E p \in Procs : \E q \in Procs \ {p} :
    /\ dumped[p].done /\ dumped[q].done
    /\ q \in dumped[p].during
    /\ Key(p) # Key(q)
    /\ fn_result[p].called /\ ~fn_result[p].raised
    /\ fn_result[q].called /\ ~fn_result[q].raised
    /\ Reload.st = "ok"
    /\ Key(p) \notin DOMAIN Reload.map /\ Key(q) \in DOMAIN Reload.map

\* C11: when the invocation before served a stale value through the fallback
\* and the running one has the same key, the load succeeds, finds the entry
\* and finds it expired; fn is called, once, and the call is no fresh hit.
C11_RetryAfterFallback ==
  (prev[1].fallback /\ prev[1].key = Key(1) /\ loaded[1].st # "none") =>
     /\ loaded[1].st = "ok"
     /\ HadEntry(1)
     /\ Age(1) >= valid_for
     /\ pc[1] = "fn" \/ fn_result[1].called
     /\ Done(1) => ncalls[1].fn = 1

C11_Witness ==
  /\ prev[1].fallback /\ prev[1].key = Key(1)
  /\ Done(1) /\ HadEntry(1)
  /\ fn_result[1].called /\ ~fn_result[1].raised
  /\ outcome[1] = Returned(fn_result[1].value)

\* C12: whenever the remote answers the fetch with a status that is not the
\* success status, or with a body that carries an `error` field, fn raises
\* RuntimeError; and when the key had an entry, the call returns its value.
C12_RemoteFailureFallsBack ==
  (/\ fn_result[1].called /\ fn_result[1].body # "no_connection"
   /\ \/ fn_result[1].status # HTTP_OK
      \/ fn_result[1].body \in {"error_obj", "error_str"}) =>
     /\ fn_result[1].raised
     /\ fn_result[1].kind = "RuntimeError"
     /\ (Done(1) /\ HadEntry(1)) => outcome[1] = Returned(Prior(1).value)

\* C13: every invocation opens, loads and dumps the file at the override
\* path when CORONA_STATUS_CACHE or --cache-file supplies one, and the file
\* beside the program only when neither does.
C13_OverrideUsed ==
  (ncalls[1].load > 0) =>
     LET supplied == {environb, args} \ {NoPath}
     IN  IF supplied = {} THEN cachef[1].name = DefaultPath
                          ELSE cachef[1].name \in supplied

\* C14: a call that returns a value has loaded the store once and dumped it
\* once, and the dump is done when the value is returned; fn is called at
\* most once in a call, and only after the lookup found no entry or an
\* entry as old as the ttl or older.
C14_SideEffects ==
  /\ (Done(1) /\ outcome[1].state = "returned") =>
        /\ ncalls[1].load = 1 /\ loaded[1].st \in {"ok", "EOFError"}
        /\ ncalls[1].dump = 1 /\ dumped[1].done
        /\ dumped[1].map = cache_storage[1]
  /\ (pc[1] = "dump") => (outcome[1] = NoOutcome /\ ncalls[1].dump = 0)
  /\ ncalls[1].fn <= 1
  /\ (pc[1] = "fn" \/ ncalls[1].fn > 0) =>
        /\ ncalls[1].load = 1 /\ LookedUp(1)
        /\ ~HadEntry(1) \/ Age(1) >= valid_for

C14_Witness ==
  /\ Done(1) /\ outcome[1].state = "returned"
  /\ HadEntry(1) /\ fn_result[1].raised
  /\ ncalls[1] = [load |-> 1, fn |-> 1, dump |-> 1]
  /\ prev[1].fallback

\* C15: the file is opened when the call begins, at offset 0, stays open
\* while the call runs, and is closed when the call has ended, whether it
\* returned a value, raised the exception of fn or of the load, or raised
\* the cache-miss error; between calls no handle is open.
C15_ScopedHandle ==
  /\ (pc[1] # "idle") => (cachef[1].open /\ cachef[1].name = cache_path)
  /\ (pc[1] = "load") => cachef[1].pos = 0
  /\ (pc[1] = "idle") => ~cachef[1].open

C15_Witness ==
  /\ Done(1) /\ ~cachef[1].open
  /\ outcome[1] = Raised(CacheMissKind, "RuntimeError", "cache_wrapper")
  /\ cachef[1].name = cache_path

\* C16: the mapping a call dumps has every key of the mapping it loaded and
\* no other key but its own, with the entry of every key but its own as
\* loaded; and when the file was readable as the call began, it is readable
\* when the call has ended, holds every key it held, with the same entry for
\* every key but the call's, and no key more but the call's.
Before(p) == pickle_load(pre_file[p].content)

C16_Frame ==
  /\ dumped[1].done =>
        /\ DOMAIN loaded[1].map \subseteq DOMAIN dumped[1].map
        /\ DOMAIN dumped[1].map \subseteq DOMAIN loaded[1].map \cup {Key(1)}
        /\ \A k \in DOMAIN loaded[1].map \ {Key(1)} :
              dumped[1].map[k] = loaded[1].map[k]
  /\ (Done(1) /\ Before(1).st = "ok") =>
        /\ Reload.st = "ok"
        /\ DOMAIN Before(1).map \subseteq DOMAIN Reload.map
        /\ DOMAIN Reload.map \subseteq DOMAIN Before(1).map \cup {Key(1)}
        /\ \A k \in DOMAIN Before(1).map \ {Key(1)} :
              Reload.map[k] = Before(1).map[k]

C16_Witness ==
  /\ Done(1) /\ Before(1).st = "ok" /\ outcome[1].state = "returned"
  /\ DOMAIN Before(1).map = Keys
  /\ Reload.map[Key(1)] # Before(1).map[Key(1)]
  /\ \E k \in Keys \ {Key(1)} : Reload.map[k] = Before(1).map[k]

\* C17: for every wrapped function, the exceptions that catch_exceptions
\* makes fall back are at all times those given to @cache, none when no set
\* was given; and whenever fn raised, the call fell back to the stored
\* entry or raised the cache-miss error exactly when the exception is of
\* a class given to @cache, and raised the exception of fn otherwise.
GivenClasses(f) == IF cargs[f].none THEN {} ELSE cargs[f].classes

C17_FallbackSetStable ==
  /\ \A f \in FnNames :
        (IF catch_exceptions[1][f].none THEN {}
                                        ELSE catch_exceptions[1][f].classes)
          = GivenClasses(f)
  /\ (Done(1) /\ fn_result[1].raised) =>
        LET given == \E cls \in GivenClasses(call[1].fn) :
                       IsInstance(fn_result[1].kind, cls)
        IN  /\ given => outcome[1].origin # "fn"
            /\ ~given => outcome[1] = Raised(fn_result[1].kind, "", "fn")

C17_Witness ==
  /\ pc[1] = "fn"
  /\ cargs[call[1].fn] = NoCatch
  /\ catch_exceptions[1][call[1].fn] = Given({})
  /\ \E g \in FnNames :
        /\ cargs[g] = Given({"RuntimeError"})
        /\ catch_exceptions[1][g] = cargs[g]
  /\ prev[1].fallback

====
